---------------------------- MODULE Spec2Model ----------------------------
(***************************************************************************)
(* The CSS selector builder of src/05-objects-tasks.js: the class          *)
(* CssCreator and the facade cssSelectorBuilder.  Strings are TLA+ strings *)
(* and += is \o, so a template is the text the code builds, character for  *)
(* character.  A thrown Error is the message it carries.                   *)
(***************************************************************************)
EXTENDS Integers, Sequences, FiniteSets, TLC

\* Mutating operations (constructions, fragment calls, combines) in one run
\* of the facade specification Spec.
MaxOps == 3
\* Operations on the one instance of the chain specification SpecChain.
MaxCalls == 4
\* Widths and heights of the rectangle specification SpecRectangle.
MaxSide == 2

\* Caller-supplied fragment values and combinator tokens.
Values == {"a", "b"}
FacadeValues == {"a"}
Combinators == {"+", "~"}

VARIABLES
  heap,   \* the CssCreator instances constructed so far, in construction order
  calls,  \* per instance, the mutating calls made on it and what each threw
  last,   \* the call made last: its receiver, arguments, outcome and result
  rectangle,  \* the object Rectangle returned, in a sequence (none: empty)
  shapeCall   \* the call made last with that object: arguments and result

vars == <<heap, calls, last, rectangle, shapeCall>>

-----------------------------------------------------------------------------
(* function Rectangle: it returns an object literal of its own, so what new *)
(* made (this) is dropped.  getArea is a method defined inside the call: it *)
(* reads the parameters width and height of that call (scope), not fields.  *)

Rectangle(width, height) ==
  [width |-> width, height |-> height,
   scope |-> [width |-> width, height |-> height]]

getArea(this) == this.scope.width * this.scope.height

-----------------------------------------------------------------------------
(* Errors *)

NoError == "none"

OrderViolation == "Selector parts should be arranged in the following order: element, id, class, attribute, pseudo-class, pseudo-element"

DuplicateViolation == "Element, id and pseudo-element should not occur more then one time inside the selector"

-----------------------------------------------------------------------------
(* class CssCreator *)

\* this.sequence
sequence == <<"element", "id", "class", "attr", "pseudoClass", "pseudoElement">>

\* Array.prototype.indexOf: the 0-based index of the first occurrence, or -1.
indexOf(arr, x) ==
  IF \E i \in 1..Len(arr) : arr[i] = x
  THEN (CHOOSE i \in 1..Len(arr) :
          arr[i] = x /\ \A j \in 1..(i - 1) : arr[j] # x) - 1
  ELSE -1

\* constructor(): the fields of a new instance (value is undefined, never read;
\* sequence is the constant above).
CssCreator ==
  [template |-> "", counterE |-> 0, counterId |-> 0, counterPe |-> 0,
   sort |-> <<>>]

\* What a method call leaves behind: the instance, and the Error thrown (or
\* NoError when the method returned this).
Returned(this) == [this |-> this, thrown |-> NoError]
Thrown(this, error) == [this |-> this, thrown |-> error]

\* Faulty variants of checkValid: one reads the entry just pushed instead of
\* the one before it, the other compares with <= instead of <.
checkValid_lastEntry(this, selector) ==
  /\ Len(this.sort) > 1
  /\ LET prevSelector == this.sort[Len(this.sort)]
     IN  indexOf(sequence, selector) < indexOf(sequence, prevSelector)

checkValid_notGreater(this, selector) ==
  /\ Len(this.sort) > 1
  /\ LET prevSelector == this.sort[Len(this.sort) - 1]
     IN  indexOf(sequence, selector) <= indexOf(sequence, prevSelector)

\* checkValid(selector): TRUE when it throws.  sort[sort.length - 2] is the
\* 1-based entry Len(sort) - 1.
checkValid(this, selector) ==
  /\ Len(this.sort) > 1
  /\ LET prevSelector == this.sort[Len(this.sort) - 1]
     IN  indexOf(sequence, selector) < indexOf(sequence, prevSelector)

\* Faulty variant of element: the counter tested ahead of its increment.
element_testBeforeCount(this, value) ==
  LET pushed == [this EXCEPT !.sort = Append(@, "element")]
      counted == [pushed EXCEPT !.counterE = @ + 1]
  IN  IF checkValid(pushed, "element") THEN Thrown(pushed, OrderViolation)
      ELSE IF pushed.counterE > 1 THEN Thrown(pushed, DuplicateViolation)
      ELSE Returned([counted EXCEPT !.template = @ \o value])

\* Faulty variant of element: the duplicate check ahead of the order check.
element_duplicateFirst(this, value) ==
  LET pushed == [this EXCEPT !.sort = Append(@, "element")]
      counted == [pushed EXCEPT !.counterE = @ + 1]
  IN  IF counted.counterE > 1 THEN Thrown(counted, DuplicateViolation)
      ELSE IF checkValid(counted, "element") THEN Thrown(counted, OrderViolation)
      ELSE Returned([counted EXCEPT !.template = @ \o value])

element(this, value) ==
  LET pushed == [this EXCEPT !.sort = Append(@, "element")]
      counted == [pushed EXCEPT !.counterE = @ + 1]
  IN  IF checkValid(pushed, "element") THEN Thrown(pushed, OrderViolation)
      ELSE IF counted.counterE > 1 THEN Thrown(counted, DuplicateViolation)
      ELSE Returned([counted EXCEPT !.template = @ \o value])

\* Faulty variant of id: the duplicate check ahead of the order check.
id_duplicateFirst(this, value) ==
  LET pushed == [this EXCEPT !.sort = Append(@, "id")]
      counted == [pushed EXCEPT !.counterId = @ + 1]
  IN  IF counted.counterId > 1 THEN Thrown(counted, DuplicateViolation)
      ELSE IF checkValid(counted, "id") THEN Thrown(counted, OrderViolation)
      ELSE Returned([counted EXCEPT !.template = @ \o "#" \o value])

\* Faulty variant of id: the counter incremented ahead of the order check.
id_countFirst(this, value) ==
  LET pushed == [this EXCEPT !.sort = Append(@, "id"), !.counterId = @ + 1]
  IN  IF checkValid(pushed, "id") THEN Thrown(pushed, OrderViolation)
      ELSE IF pushed.counterId > 1 THEN Thrown(pushed, DuplicateViolation)
      ELSE Returned([pushed EXCEPT !.template = @ \o "#" \o value])

id(this, value) ==
  LET pushed == [this EXCEPT !.sort = Append(@, "id")]
      counted == [pushed EXCEPT !.counterId = @ + 1]
  IN  IF checkValid(pushed, "id") THEN Thrown(pushed, OrderViolation)
      ELSE IF counted.counterId > 1 THEN Thrown(counted, DuplicateViolation)
      ELSE Returned([counted EXCEPT !.template = @ \o "#" \o value])

\* Faulty variant of class: the fragment put in front of the template.
class_prepended(this, value) ==
  LET pushed == [this EXCEPT !.sort = Append(@, "class")]
  IN  IF checkValid(pushed, "class") THEN Thrown(pushed, OrderViolation)
      ELSE Returned([pushed EXCEPT !.template = "." \o value \o @])

class(this, value) ==
  LET pushed == [this EXCEPT !.sort = Append(@, "class")]
  IN  IF checkValid(pushed, "class") THEN Thrown(pushed, OrderViolation)
      ELSE Returned([pushed EXCEPT !.template = @ \o "." \o value])

\* Faulty variant of attr: the tag taken off sort again when checkValid throws.
attr_pushUndone(this, value) ==
  LET pushed == [this EXCEPT !.sort = Append(@, "attr")]
  IN  IF checkValid(pushed, "attr") THEN Thrown(this, OrderViolation)
      ELSE Returned([pushed EXCEPT !.template = @ \o "[" \o value \o "]"])

\* Faulty variant of attr: the text appended ahead of the order check.
attr_appendFirst(this, value) ==
  LET pushed == [this EXCEPT !.sort = Append(@, "attr"),
                             !.template = @ \o "[" \o value \o "]"]
  IN  IF checkValid(pushed, "attr") THEN Thrown(pushed, OrderViolation)
      ELSE Returned(pushed)

attr(this, value) ==
  LET pushed == [this EXCEPT !.sort = Append(@, "attr")]
  IN  IF checkValid(pushed, "attr") THEN Thrown(pushed, OrderViolation)
      ELSE Returned([pushed EXCEPT !.template = @ \o "[" \o value \o "]"])

\* Faulty variant of pseudoClass: checkValid called ahead of the push.
pseudoClass_checkFirst(this, value) ==
  LET pushed == [this EXCEPT !.sort = Append(@, "pseudoClass")]
  IN  IF checkValid(this, "pseudoClass") THEN Thrown(this, OrderViolation)
      ELSE Returned([pushed EXCEPT !.template = @ \o ":" \o value])

pseudoClass(this, value) ==
  LET pushed == [this EXCEPT !.sort = Append(@, "pseudoClass")]
  IN  IF checkValid(pushed, "pseudoClass") THEN Thrown(pushed, OrderViolation)
      ELSE Returned([pushed EXCEPT !.template = @ \o ":" \o value])

\* Faulty variant of pseudoElement: the text appended ahead of the counter
\* test.
pseudoElement_appendFirst(this, value) ==
  LET pushed == [this EXCEPT !.sort = Append(@, "pseudoElement")]
      counted == [pushed EXCEPT !.counterPe = @ + 1,
                                !.template = @ \o "::" \o value]
  IN  IF checkValid(pushed, "pseudoElement") THEN Thrown(pushed, OrderViolation)
      ELSE IF counted.counterPe > 1 THEN Thrown(counted, DuplicateViolation)
      ELSE Returned(counted)

pseudoElement(this, value) ==
  LET pushed == [this EXCEPT !.sort = Append(@, "pseudoElement")]
      counted == [pushed EXCEPT !.counterPe = @ + 1]
  IN  IF checkValid(pushed, "pseudoElement") THEN Thrown(pushed, OrderViolation)
      ELSE IF counted.counterPe > 1 THEN Thrown(counted, DuplicateViolation)
      ELSE Returned([counted EXCEPT !.template = @ \o "::" \o value])

\* Faulty variant of combine: the call recorded in sort like a fragment.
combine_pushed(this, selector1, combinator, selector2) ==
  Returned([this EXCEPT
    !.sort = Append(@, "combine"),
    !.template = @ \o selector1 \o " " \o combinator \o " " \o selector2])

combine(this, selector1, combinator, selector2) ==
  Returned([this EXCEPT
    !.template = @ \o selector1 \o " " \o combinator \o " " \o selector2])

\* Faulty variant of stringify: this.value, which the constructor leaves
\* undefined, returned for this.template.
stringify_value(this) == "undefined"

stringify(this) == this.template

-----------------------------------------------------------------------------
(* const cssSelectorBuilder: each entry point constructs an instance, calls *)
(* one method on it and returns it; an Error thrown by the method leaves   *)
(* the caller without the instance.                                        *)

cssSelectorBuilder_element(value) == element(CssCreator, value)

cssSelectorBuilder_id(value) == id(CssCreator, value)

cssSelectorBuilder_class(value) == class(CssCreator, value)

cssSelectorBuilder_attr(value) == attr(CssCreator, value)

\* Faulty variant of the pseudoClass entry point: the wrong method called.
cssSelectorBuilder_pseudoClass_wrongMethod(value) ==
  pseudoElement(CssCreator, value)

cssSelectorBuilder_pseudoClass(value) == pseudoClass(CssCreator, value)

cssSelectorBuilder_pseudoElement(value) == pseudoElement(CssCreator, value)

\* Faulty variant of the combine entry point: the operands swapped.
cssSelectorBuilder_combine_swapped(selector1, combinator, selector2) ==
  combine(CssCreator, stringify(selector2), combinator, stringify(selector1))

cssSelectorBuilder_combine(selector1, combinator, selector2) ==
  combine(CssCreator, stringify(selector1), combinator, stringify(selector2))

-----------------------------------------------------------------------------
(* The calls a program makes.  Instance i is heap[i]. *)

Instances == 1..Len(heap)

\* One entry of calls[i].
Entry(op, value, thrown, selector1, combinator, selector2) ==
  [op |-> op, value |-> value, thrown |-> thrown,
   selector1 |-> selector1, combinator |-> combinator, selector2 |-> selector2]

\* The record of a call: facade tells a cssSelectorBuilder entry point from a
\* method call, self is the receiver (for an entry point, the instance it
\* returned), ret is what stringify returned, and repeat/prev tell whether
\* the call before it was a stringify of the same instance, and its result.
Last(op, facade, self, entry, ret, repeat, prev, arg1, arg2) ==
  [op |-> op, facade |-> facade, self |-> self, value |-> entry.value,
   thrown |-> entry.thrown, selector1 |-> entry.selector1,
   combinator |-> entry.combinator, selector2 |-> entry.selector2,
   ret |-> ret, repeat |-> repeat, prev |-> prev,
   arg1 |-> arg1, arg2 |-> arg2]

NoEntry == Entry("", NoError, NoError, "", "", "")

ShapeCall(op, width, height, ret) ==
  [op |-> op, width |-> width, height |-> height, ret |-> ret]

Init ==
  /\ heap = <<>>
  /\ calls = <<>>
  /\ last = Last("", FALSE, 0, NoEntry, "", FALSE, "", 0, 0)
  /\ rectangle = <<>>
  /\ shapeCall = ShapeCall("", 0, 0, 0)

\* Faulty variant of a method call: sort kept in one array that all the
\* instances share.
Call_sharedSort(i, entry, r) ==
  /\ heap' = [j \in DOMAIN heap |->
                IF j = i THEN r.this ELSE [heap[j] EXCEPT !.sort = r.this.sort]]
  /\ calls' = [calls EXCEPT ![i] = Append(@, entry)]
  /\ last' = Last(entry.op, FALSE, i, entry, "", FALSE, "", 0, 0)

\* A method call on instance i that left r: the instance keeps what the
\* method did before it returned or threw.
Call(i, entry, r) ==
  /\ heap' = [heap EXCEPT ![i] = r.this]
  /\ calls' = [calls EXCEPT ![i] = Append(@, entry)]
  /\ last' = Last(entry.op, FALSE, i, entry, "", FALSE, "", 0, 0)

Element(i, value) ==
  LET r == element(heap[i], value)
  IN  Call(i, Entry("element", value, r.thrown, "", "", ""), r)

Id(i, value) ==
  LET r == id(heap[i], value)
  IN  Call(i, Entry("id", value, r.thrown, "", "", ""), r)

Class(i, value) ==
  LET r == class(heap[i], value)
  IN  Call(i, Entry("class", value, r.thrown, "", "", ""), r)

Attr(i, value) ==
  LET r == attr(heap[i], value)
  IN  Call(i, Entry("attr", value, r.thrown, "", "", ""), r)

PseudoClass(i, value) ==
  LET r == pseudoClass(heap[i], value)
  IN  Call(i, Entry("pseudoClass", value, r.thrown, "", "", ""), r)

PseudoElement(i, value) ==
  LET r == pseudoElement(heap[i], value)
  IN  Call(i, Entry("pseudoElement", value, r.thrown, "", "", ""), r)

Combine(i, selector1, combinator, selector2) ==
  LET r == combine(heap[i], selector1, combinator, selector2)
  IN  Call(i, Entry("combine", "", r.thrown, selector1, combinator, selector2), r)

Stringify(i) ==
  LET repeat == last.op = "stringify" /\ last.self = i
  IN  /\ last' = Last("stringify", FALSE, i, NoEntry, stringify(heap[i]),
                      repeat, IF repeat THEN last.ret ELSE "", 0, 0)
      /\ UNCHANGED <<heap, calls>>

\* An entry point of cssSelectorBuilder that left r: the caller gets the new
\* instance unless the method threw.
Construct(entry, r, arg1, arg2) ==
  IF r.thrown = NoError
  THEN /\ heap' = Append(heap, r.this)
       /\ calls' = Append(calls, <<entry>>)
       /\ last' = Last(entry.op, TRUE, Len(heap) + 1, entry, "", FALSE, "",
                       arg1, arg2)
  ELSE /\ last' = Last(entry.op, TRUE, 0, entry, "", FALSE, "", arg1, arg2)
       /\ UNCHANGED <<heap, calls>>

BuilderElement(value) ==
  LET r == cssSelectorBuilder_element(value)
  IN  Construct(Entry("element", value, r.thrown, "", "", ""), r, 0, 0)

BuilderId(value) ==
  LET r == cssSelectorBuilder_id(value)
  IN  Construct(Entry("id", value, r.thrown, "", "", ""), r, 0, 0)

BuilderClass(value) ==
  LET r == cssSelectorBuilder_class(value)
  IN  Construct(Entry("class", value, r.thrown, "", "", ""), r, 0, 0)

BuilderAttr(value) ==
  LET r == cssSelectorBuilder_attr(value)
  IN  Construct(Entry("attr", value, r.thrown, "", "", ""), r, 0, 0)

BuilderPseudoClass(value) ==
  LET r == cssSelectorBuilder_pseudoClass(value)
  IN  Construct(Entry("pseudoClass", value, r.thrown, "", "", ""), r, 0, 0)

BuilderPseudoElement(value) ==
  LET r == cssSelectorBuilder_pseudoElement(value)
  IN  Construct(Entry("pseudoElement", value, r.thrown, "", "", ""), r, 0, 0)

\* selector1 and selector2 are instances a and b.
BuilderCombine(a, combinator, b) ==
  LET r == cssSelectorBuilder_combine(heap[a], combinator, heap[b])
  IN  Construct(Entry("combine", "", r.thrown, stringify(heap[a]), combinator,
                      stringify(heap[b])), r, a, b)

-----------------------------------------------------------------------------
(* Spec: a program that uses the facade, chains calls on the instances it   *)
(* got and combines them, in any interleaving, MaxOps mutating calls long.  *)

RECURSIVE TotalCalls(_)
TotalCalls(logs) ==
  IF logs = <<>> THEN 0 ELSE Len(Head(logs)) + TotalCalls(Tail(logs))

Mutate ==
  \/ \E v \in FacadeValues : BuilderElement(v)
  \/ \E v \in FacadeValues : BuilderId(v)
  \/ \E v \in FacadeValues : BuilderClass(v)
  \/ \E v \in FacadeValues : BuilderAttr(v)
  \/ \E v \in FacadeValues : BuilderPseudoClass(v)
  \/ \E v \in FacadeValues : BuilderPseudoElement(v)
  \/ \E a \in Instances, b \in Instances, c \in Combinators :
       BuilderCombine(a, c, b)
  \/ \E i \in Instances, v \in FacadeValues : Element(i, v)
  \/ \E i \in Instances, v \in FacadeValues : Id(i, v)
  \/ \E i \in Instances, v \in FacadeValues : Class(i, v)
  \/ \E i \in Instances, v \in FacadeValues : Attr(i, v)
  \/ \E i \in Instances, v \in FacadeValues : PseudoClass(i, v)
  \/ \E i \in Instances, v \in FacadeValues : PseudoElement(i, v)
  \/ \E i \in Instances, a \in Instances, b \in Instances, c \in Combinators :
       Combine(i, stringify(heap[a]), c, stringify(heap[b]))

Next ==
  /\ \/ TotalCalls(calls) < MaxOps /\ Mutate
     \/ \E i \in Instances : Stringify(i)
  /\ UNCHANGED <<rectangle, shapeCall>>

Spec == Init /\ [][Next]_vars

-----------------------------------------------------------------------------
(* SpecChain: one instance, got from a fragment entry point, and every      *)
(* chain of MaxCalls calls on it, the calls made after a caught Error       *)
(* included.                                                               *)

First ==
  \/ \E v \in Values : BuilderElement(v)
  \/ \E v \in Values : BuilderId(v)
  \/ \E v \in Values : BuilderClass(v)
  \/ \E v \in Values : BuilderAttr(v)
  \/ \E v \in Values : BuilderPseudoClass(v)
  \/ \E v \in Values : BuilderPseudoElement(v)

Chain ==
  \/ \E v \in Values : Element(1, v)
  \/ \E v \in Values : Id(1, v)
  \/ \E v \in Values : Class(1, v)
  \/ \E v \in Values : Attr(1, v)
  \/ \E v \in Values : PseudoClass(1, v)
  \/ \E v \in Values : PseudoElement(1, v)
  \/ \E c \in Combinators : Combine(1, "a", c, "#b")

NextChain ==
  /\ \/ heap = <<>> /\ First
     \/ heap # <<>> /\ Len(calls[1]) < MaxCalls /\ Chain
     \/ heap # <<>> /\ Stringify(1)
  /\ UNCHANGED <<rectangle, shapeCall>>

SpecChain == Init /\ [][NextChain]_vars

-----------------------------------------------------------------------------
(* SpecRectangle: a program that makes a rectangle, assigns to its fields   *)
(* and asks for its area, with sides in -MaxSide..MaxSide.                  *)

Sides == (0 - MaxSide)..MaxSide

\* const r = new Rectangle(width, height)
NewRectangle(width, height) ==
  /\ rectangle = <<>>
  /\ rectangle' = <<Rectangle(width, height)>>
  /\ shapeCall' = ShapeCall("Rectangle", width, height, 0)

\* r.width = width
SetWidth(width) ==
  /\ rectangle # <<>>
  /\ rectangle' = <<[rectangle[1] EXCEPT !.width = width]>>
  /\ shapeCall' = ShapeCall("width", width, 0, 0)

\* r.height = height
SetHeight(height) ==
  /\ rectangle # <<>>
  /\ rectangle' = <<[rectangle[1] EXCEPT !.height = height]>>
  /\ shapeCall' = ShapeCall("height", 0, height, 0)

\* r.getArea()
GetArea ==
  /\ rectangle # <<>>
  /\ shapeCall' = ShapeCall("getArea", 0, 0, getArea(rectangle[1]))
  /\ UNCHANGED rectangle

NextRectangle ==
  /\ \/ \E width \in Sides, height \in Sides : NewRectangle(width, height)
     \/ \E width \in Sides : SetWidth(width)
     \/ \E height \in Sides : SetHeight(height)
     \/ GetArea
  /\ UNCHANGED <<heap, calls, last>>

SpecRectangle == Init /\ [][NextRectangle]_vars

-----------------------------------------------------------------------------
(* The vocabulary of the specification: fragment kinds, their ranks and    *)
(* rendered forms (the table of section 4.1), and the calls of a chain.    *)

Fragments ==
  {"element", "id", "class", "attr", "pseudoClass", "pseudoElement"}

OnceOnly == {"element", "id", "pseudoElement"}

Rank(kind) ==
  CASE kind = "element" -> 0
    [] kind = "id" -> 1
    [] kind = "class" -> 2
    [] kind = "attr" -> 3
    [] kind = "pseudoClass" -> 4
    [] kind = "pseudoElement" -> 5

Rendered(kind, value) ==
  CASE kind = "element" -> value
    [] kind = "id" -> "#" \o value
    [] kind = "class" -> "." \o value
    [] kind = "attr" -> "[" \o value \o "]"
    [] kind = "pseudoClass" -> ":" \o value
    [] kind = "pseudoElement" -> "::" \o value

IsFragment(entry) == entry.op \in Fragments

\* The fragment calls made on instance i, in call order.
FragmentCalls(i) == SelectSeq(calls[i], IsFragment)

OnlyFragments(log) == \A j \in 1..Len(log) : IsFragment(log[j])

AllSucceeded(log) == \A j \in 1..Len(log) : log[j].thrown = NoError

\* Non-decreasing ranks, and element, id and pseudoElement at most once each.
ValidChain(log) ==
  /\ \A j \in 2..Len(log) : Rank(log[j].op) >= Rank(log[j - 1].op)
  /\ \A kind \in OnceOnly :
       Cardinality({j \in 1..Len(log) : log[j].op = kind}) <= 1

RECURSIVE Concatenation(_)
Concatenation(log) ==
  IF log = <<>> THEN ""
  ELSE Rendered(Head(log).op, Head(log).value) \o Concatenation(Tail(log))

-----------------------------------------------------------------------------
\* C1: on a builder that has only had fragment calls, if the calls are in
\* non-decreasing rank order with element, id and pseudoElement at most once
\* each, then every call succeeded and stringify() returns the rendered
\* forms of the calls concatenated in call order.
C1_ValidChainRenders ==
  \A i \in Instances :
    (OnlyFragments(calls[i]) /\ ValidChain(calls[i]))
      => /\ AllSucceeded(calls[i])
         /\ stringify(heap[i]) = Concatenation(calls[i])

\* A valid chain of four calls, the last two of one kind with different values.
C1_Witness ==
  \E i \in Instances :
    /\ OnlyFragments(calls[i]) /\ ValidChain(calls[i])
    /\ Len(calls[i]) = 4
    /\ calls[i][1].op # calls[i][2].op
    /\ calls[i][3].op = calls[i][4].op
    /\ calls[i][3].value # calls[i][4].value
    /\ stringify(heap[i]) = Concatenation(calls[i])

\* C2: of two consecutive fragment calls on one builder, whatever came of the
\* first, a second call of strictly lower rank raises OrderViolation.
C2_LowerRankRaisesOrder ==
  \A i \in Instances :
    LET log == FragmentCalls(i)
    IN  \A j \in 2..Len(log) :
          Rank(log[j].op) < Rank(log[j - 1].op)
            => log[j].thrown = OrderViolation

\* A lower-rank call right after a call that itself failed.
C2_Witness ==
  \E i \in Instances :
    LET log == FragmentCalls(i)
    IN  /\ Len(log) = 3
        /\ log[2].thrown # NoError
        /\ Rank(log[3].op) < Rank(log[2].op)
        /\ log[3].thrown = OrderViolation

\* The second call of a once-only kind, after calls that all succeeded:
\* entry j of the chain log.
SecondOfKind(log, j) ==
  /\ log[j].op \in OnceOnly
  /\ \A k \in 1..(j - 1) : log[k].thrown = NoError
  /\ \E k \in 1..(j - 1) : log[k].op = log[j].op

\* C3 as stated: the second element, id or pseudoElement call of a chain whose
\* earlier calls all succeeded raises DuplicateViolation wherever it occurs.
C3_Original ==
  \A i \in Instances :
    LET log == FragmentCalls(i)
    IN  \A j \in 1..Len(log) :
          SecondOfKind(log, j) => log[j].thrown = DuplicateViolation

\* C3 (amended): that second call always fails; it raises DuplicateViolation
\* when its rank is not lower than the rank of the fragment call right before
\* it (always so for pseudoElement), and OrderViolation when it is lower.
C3_SecondCallFails ==
  \A i \in Instances :
    LET log == FragmentCalls(i)
    IN  \A j \in 1..Len(log) :
          SecondOfKind(log, j)
            => /\ log[j].thrown =
                    IF Rank(log[j].op) < Rank(log[j - 1].op)
                    THEN OrderViolation ELSE DuplicateViolation
               /\ log[j].op = "pseudoElement"
                    => log[j].thrown = DuplicateViolation

\* element, id, id: the second id raises DuplicateViolation.
C3_Witness ==
  \E i \in Instances :
    LET log == FragmentCalls(i)
    IN  /\ Len(log) = 3
        /\ SecondOfKind(log, 3)
        /\ log[3].thrown = DuplicateViolation

\* C4: a class, attr or pseudoClass call never raises DuplicateViolation, and
\* on a builder on which no call has failed it succeeds whenever its rank is
\* not lower than the rank of the fragment before it, however many fragments
\* of its kind are there already.
C4_RepeatsTolerated ==
  \A i \in Instances :
    LET log == FragmentCalls(i)
    IN  \A j \in 1..Len(log) :
          log[j].op \in Fragments \ OnceOnly
            => /\ log[j].thrown # DuplicateViolation
               /\ ( /\ \A k \in 1..(j - 1) : log[k].thrown = NoError
                    /\ j > 1 => Rank(log[j].op) >= Rank(log[j - 1].op) )
                    => log[j].thrown = NoError

\* Three calls of one repeatable kind in a row, all successful.
C4_Witness ==
  \E i \in Instances :
    LET log == FragmentCalls(i)
    IN  /\ Len(log) = 3
        /\ log[1].op \in Fragments \ OnceOnly
        /\ log[2].op = log[1].op /\ log[3].op = log[1].op
        /\ AllSucceeded(log)

\* The call made last was the facade's combine and it returned an instance.
FacadeCombined ==
  last.facade /\ last.op = "combine" /\ last.self \in Instances

\* C5: the instance the facade's combine(A, c, B) returns stringifies to
\* A.stringify(), a space, c, a space, B.stringify(); and when A is itself
\* what the facade's combine(X, c1, Y) returned, to "<X> c1 <Y> c <B>".
C5_CombineJoins ==
  FacadeCombined =>
    LET A == heap[last.arg1]
        B == heap[last.arg2]
        made == calls[last.arg1]
    IN  /\ stringify(heap[last.self])
             = stringify(A) \o " " \o last.combinator \o " " \o stringify(B)
        /\ (Len(made) = 1 /\ made[1].op = "combine")
             => stringify(heap[last.self])
                  = made[1].selector1 \o " " \o made[1].combinator \o " "
                      \o made[1].selector2 \o " " \o last.combinator \o " "
                      \o stringify(B)

\* combine(combine(X, '~', X), '+', X) with X = element('a').
C5_Witness ==
  /\ FacadeCombined
  /\ calls[last.arg1][1].op = "combine"
  /\ last.arg2 # last.arg1
  /\ stringify(heap[last.self]) = "a ~ a + a"

\* C6 as stated: the three counters never exceed 1, also after a failed call.
C6_Original ==
  \A i \in Instances :
    heap[i].counterE <= 1 /\ heap[i].counterId <= 1 /\ heap[i].counterPe <= 1

Counter(this, kind) ==
  CASE kind = "element" -> this.counterE
    [] kind = "id" -> this.counterId
    [] kind = "pseudoElement" -> this.counterPe

\* C6 (amended): each counter is the number of calls of its kind that did not
\* raise OrderViolation, so it is at most 1 in every state of an instance on
\* which no call of that kind has raised DuplicateViolation (the states after
\* an OrderViolation included), and above 1 after a DuplicateViolation.
C6_CountersCountCalls ==
  \A i \in Instances : \A kind \in OnceOnly :
    LET log == FragmentCalls(i)
        counted == {j \in 1..Len(log) :
                      log[j].op = kind /\ log[j].thrown # OrderViolation}
        duplicates == {j \in 1..Len(log) :
                         log[j].op = kind /\ log[j].thrown = DuplicateViolation}
    IN  /\ Counter(heap[i], kind) = Cardinality(counted)
        /\ (duplicates = {}) <=> (Counter(heap[i], kind) <= 1)

\* An instance whose second element call raised OrderViolation: counterE is 1.
C6_Witness ==
  \E i \in Instances :
    LET log == FragmentCalls(i)
    IN  /\ \E j \in 1..Len(log) :
             log[j].op = "element" /\ log[j].thrown = OrderViolation
        /\ \E j \in 1..Len(log) :
             log[j].op = "element" /\ log[j].thrown = NoError
        /\ heap[i].counterE = 1

NonDecreasing(kinds) ==
  \A j \in 2..Len(kinds) : Rank(kinds[j]) >= Rank(kinds[j - 1])

\* C7 as stated: sort is non-decreasing in rank in every reachable state.
C7_Original ==
  \A i \in Instances : NonDecreasing(heap[i].sort)

\* C7 (amended): sort holds the kind of every fragment call made, and an entry
\* is of lower rank than the entry before it exactly when its call raised
\* OrderViolation; so sort is non-decreasing in every state of an instance on
\* which no call has raised OrderViolation, and not after one.
C7_DescentsAreOrderViolations ==
  \A i \in Instances :
    LET log == FragmentCalls(i)
        kinds == heap[i].sort
    IN  /\ Len(kinds) = Len(log)
        /\ \A j \in 1..Len(log) : kinds[j] = log[j].op
        /\ \A j \in 2..Len(kinds) :
             (Rank(kinds[j]) < Rank(kinds[j - 1]))
               <=> (log[j].thrown = OrderViolation)
        /\ (\A j \in 1..Len(log) : log[j].thrown # OrderViolation)
             <=> NonDecreasing(kinds)

\* Three fragment calls, one of which raised DuplicateViolation and none
\* OrderViolation: sort is non-decreasing in the state the failure left.
C7_Witness ==
  \E i \in Instances :
    LET log == FragmentCalls(i)
    IN  /\ Len(log) >= 3
        /\ \E j \in 1..Len(log) : log[j].thrown = DuplicateViolation
        /\ \A j \in 1..Len(log) : log[j].thrown # OrderViolation
        /\ NonDecreasing(heap[i].sort)

\* C8: a stringify() call returns the instance's template, changes no
\* instance, and returns what the stringify() call right before it on the
\* same instance returned.
C8_StringifyPure ==
  [][(last'.op = "stringify" /\ last' # last)
       => /\ heap' = heap
          /\ last'.ret = heap[last'.self].template
          /\ last'.repeat => last'.ret = last.ret]_vars

\* A second stringify() in a row, on an instance with some text.
C8_Witness ==
  /\ last.op = "stringify" /\ last.repeat
  /\ last.ret = last.prev
  /\ last.ret = heap[last.self].template
  /\ Len(last.ret) > 1

\* C9: a fragment entry point of the facade succeeds and returns a new
\* instance that holds that one fragment: its rendered form as the template,
\* its tag alone in sort, and 1 in the counter of its kind only; and the first
\* fragment call on any instance raised nothing.
C9_EntryPointHoldsOneFragment ==
  /\ (last.facade /\ last.op \in Fragments)
       => /\ last.thrown = NoError
          /\ last.self = Len(heap)
          /\ Len(calls[last.self]) = 1
          /\ heap[last.self] =
               [template |-> Rendered(last.op, last.value),
                sort |-> <<last.op>>,
                counterE |-> IF last.op = "element" THEN 1 ELSE 0,
                counterId |-> IF last.op = "id" THEN 1 ELSE 0,
                counterPe |-> IF last.op = "pseudoElement" THEN 1 ELSE 0]
  /\ \A i \in Instances :
       IsFragment(calls[i][1]) => calls[i][1].thrown = NoError

\* The facade's pseudoElement, called when another instance exists already.
C9_Witness ==
  /\ last.facade /\ last.op = "pseudoElement"
  /\ last.self = 2
  /\ heap[2].template = "::a" /\ heap[2].counterPe = 1

\* C10: a call changes no instance but its receiver: every instance that
\* existed before a step and is not the receiver of the call (nor the
\* instance an entry point returns) is the same after it.
C10_NoSharedState ==
  [][\A i \in Instances :
       i # last'.self => (i <= Len(heap') /\ heap'[i] = heap[i])]_vars

\* A failed fragment call on the first of two instances, the second intact.
C10_Witness ==
  /\ Len(heap) = 2
  /\ ~last.facade /\ last.self = 1 /\ last.thrown = OrderViolation
  /\ Len(heap[1].sort) = 2
  /\ heap[2].sort = <<calls[2][1].op>>

\* C11: the object Rectangle(width, height) returns has the arguments in its
\* width and height fields, and its getArea() returns the product of the
\* width and height the object has when it is called, also after either
\* field has been assigned to.
C11_AreaOfTheObject ==
  /\ shapeCall.op = "Rectangle"
       => /\ rectangle[1].width = shapeCall.width
          /\ rectangle[1].height = shapeCall.height
  /\ shapeCall.op = "getArea"
       => shapeCall.ret = rectangle[1].width * rectangle[1].height

\* entry j of log has a lower rank than some fragment appended before it
\* (a fragment call before it that succeeded).
BelowAppended(log, j) ==
  \E k \in 1..(j - 1) :
    log[k].thrown = NoError /\ Rank(log[j].op) < Rank(log[k].op)

\* C12: a fragment call, also one made after an earlier call failed, raises
\* OrderViolation if and only if its rank is lower than the rank of some
\* fragment appended to the instance before it.
C12_AdjacentCheckIsGlobal ==
  \A i \in Instances :
    LET log == FragmentCalls(i)
    IN  \A j \in 1..Len(log) :
          (log[j].thrown = OrderViolation) <=> BelowAppended(log, j)

\* What the code does guarantee: a call that raises OrderViolation is below
\* some appended fragment, and while no call has failed the two agree.
C12_HoldsUntilAnError ==
  \A i \in Instances :
    LET log == FragmentCalls(i)
    IN  \A j \in 1..Len(log) :
          /\ log[j].thrown = OrderViolation => BelowAppended(log, j)
          /\ (\A k \in 1..(j - 1) : log[k].thrown = NoError)
               => (log[j].thrown = OrderViolation <=> BelowAppended(log, j))

\* The step is a method call on an instance (not an entry point of the
\* facade): last' tells which, and calls grows with every such call.
MethodCall == calls' # calls /\ ~last'.facade

\* C13: a fragment call that raises OrderViolation leaves the template and
\* the three counters of its instance as they were before the call.
C13_OrderViolationKeepsText ==
  [][(MethodCall /\ last'.thrown = OrderViolation)
       => LET before == heap[last'.self]
              after == heap'[last'.self]
          IN  /\ after.template = before.template
              /\ after.counterE = before.counterE
              /\ after.counterId = before.counterId
              /\ after.counterPe = before.counterPe]_vars

\* An id call has just raised OrderViolation on an instance with text.
C13_Witness ==
  /\ ~last.facade /\ last.op = "id" /\ last.thrown = OrderViolation
  /\ Len(heap[last.self].template) >= 4
  /\ heap[last.self].counterId = 0

\* C14: an element, id or pseudoElement call that raises DuplicateViolation
\* leaves the template of its instance as it was before the call.
C14_DuplicateViolationKeepsText ==
  [][(MethodCall /\ last'.thrown = DuplicateViolation)
       => /\ last'.op \in OnceOnly
          /\ heap'[last'.self].template = heap[last'.self].template]_vars

\* A pseudoElement call has just raised DuplicateViolation.
C14_Witness ==
  /\ ~last.facade /\ last.op = "pseudoElement"
  /\ last.thrown = DuplicateViolation
  /\ heap[last.self].counterPe = 2
  /\ Len(heap[last.self].template) >= 3

\* C15: once a fragment call on an instance has raised OrderViolation, every
\* later fragment call on that instance fails too.
C15_OrderViolationIsPermanent ==
  \A i \in Instances :
    LET log == FragmentCalls(i)
    IN  \A j \in 1..Len(log) : \A k \in (j + 1)..Len(log) :
          log[j].thrown = OrderViolation => log[k].thrown # NoError

\* The kinds of the entries of log that succeeded, in order.
Succeeded(entry) == entry.thrown = NoError

Kinds(log) == [j \in 1..Len(log) |-> log[j].op]

\* C16 as stated: sort holds the kinds of the fragments appended to the
\* template, in order, so a call that failed added no entry.
C16_Original ==
  \A i \in Instances :
    heap[i].sort = Kinds(SelectSeq(FragmentCalls(i), Succeeded))

\* C16 (amended): sort holds one entry per fragment call made on the
\* instance, in call order, whether the call succeeded or raised
\* OrderViolation or DuplicateViolation; the fragments appended to the
\* template are those of the calls that succeeded, in call order.
C16_OneEntryPerCall ==
  \A i \in Instances :
    LET log == FragmentCalls(i)
    IN  /\ heap[i].sort = Kinds(log)
        /\ OnlyFragments(calls[i])
             => stringify(heap[i]) = Concatenation(SelectSeq(log, Succeeded))

\* Four calls of which one raised OrderViolation and one DuplicateViolation:
\* sort has four entries.
C16_Witness ==
  \E i \in Instances :
    LET log == FragmentCalls(i)
    IN  /\ Len(heap[i].sort) = 4
        /\ \E j \in 1..Len(log) : log[j].thrown = OrderViolation
        /\ \E j \in 1..Len(log) : log[j].thrown = DuplicateViolation
        /\ heap[i].sort = Kinds(log)

\* What a combine call is to leave of an instance: the template grown
\* by "selector1 combinator selector2", every other field as it was.
Combined(this, selector1, combinator, selector2) ==
  [this EXCEPT
     !.template = @ \o selector1 \o " " \o combinator \o " " \o selector2]

\* C17: a combine call on an instance raises nothing, appends exactly
\* "<selector1> <combinator> <selector2>" to the template and leaves sort and
\* the three counters as they were; so a fragment call raises OrderViolation
\* exactly when its rank is lower than that of the fragment call before it,
\* whether or not combine calls were made in between.
C17_CombineValidatesNothing ==
  /\ [][(MethodCall /\ last'.op = "combine")
          => /\ last'.thrown = NoError
             /\ heap'[last'.self]
                  = Combined(heap[last'.self], last'.selector1,
                             last'.combinator, last'.selector2)]_vars
  /\ [](\A i \in Instances :
          LET log == FragmentCalls(i)
          IN  \A j \in 2..Len(log) :
                (log[j].thrown = OrderViolation)
                  <=> (Rank(log[j].op) < Rank(log[j - 1].op)))

\* id, combine, element: the element call after the combine is checked
\* against the id before it and raises OrderViolation.
C17_Witness ==
  \E i \in Instances :
    /\ Len(calls[i]) = 3
    /\ calls[i][1].op = "id"
    /\ calls[i][2].op = "combine"
    /\ calls[i][3].op = "element" /\ calls[i][3].thrown = OrderViolation
    /\ heap[i].sort = <<"id", "element">>
    /\ heap[i].template = "#aa + #b"

\* The call of the step is an element, id or pseudoElement call on an
\* instance whose sort ends with a kind of higher rank and holds the kind of
\* the call already.
LowerAndRepeated ==
  /\ MethodCall
  /\ last'.op \in OnceOnly
  /\ LET kinds == heap[last'.self].sort
     IN  /\ kinds # <<>>
         /\ Rank(last'.op) < Rank(kinds[Len(kinds)])
         /\ \E j \in 1..Len(kinds) : kinds[j] = last'.op

\* C18: an element, id or pseudoElement call whose rank is lower than that of
\* the last entry of sort, and whose kind occurred on the instance before,
\* raises OrderViolation, not DuplicateViolation, and leaves the counter of
\* its kind as it was.
C18_OrderCheckFirst ==
  [][LowerAndRepeated
       => /\ last'.thrown = OrderViolation
          /\ Counter(heap'[last'.self], last'.op)
               = Counter(heap[last'.self], last'.op)]_vars

\* id, class, id: the second id has raised OrderViolation and counterId is 1.
C18_Witness ==
  /\ ~last.facade /\ last.op = "id" /\ last.thrown = OrderViolation
  /\ LET log == FragmentCalls(last.self)
     IN  /\ Len(log) = 3
         /\ log[1].op = "id" /\ log[1].thrown = NoError
         /\ log[2].op = "class"
  /\ heap[last.self].counterId = 1

\* C19: on every instance, also one that has been called again after caught
\* Errors, at most one element call, one id call and one pseudoElement call
\* have succeeded: after one has, every later call of its kind fails.
C19_OnceOnlyKindsAppendOnce ==
  \A i \in Instances : \A kind \in OnceOnly :
    LET log == FragmentCalls(i)
    IN  Cardinality({j \in 1..Len(log) :
                       log[j].op = kind /\ log[j].thrown = NoError}) <= 1

\* element, class, element, element: the third call raised OrderViolation,
\* and the fourth, which passes the order check, DuplicateViolation.
C19_Witness ==
  \E i \in Instances :
    LET log == FragmentCalls(i)
    IN  /\ Len(log) = 4
        /\ log[1].op = "element" /\ log[1].thrown = NoError
        /\ log[3].op = "element" /\ log[3].thrown = OrderViolation
        /\ log[4].op = "element" /\ log[4].thrown = DuplicateViolation
        /\ heap[i].template = "a.b"

=============================================================================
